---- MODULE Spec2Model ----
(***************************************************************************)
(* A model of the reverse-mode autograd engine of src/tensor.py together   *)
(* with its callers in src/module.py and src/optimizer.py.                 *)
(*                                                                         *)
(* Numbers: the float32 entries of a numpy array are modelled as exact     *)
(* rationals <<numerator, denominator>> in lowest terms; float32 rounding, *)
(* inf and nan are not modelled (no action divides by zero).               *)
(* Arrays: a numpy ndarray is [shape, flat] with flat in row-major order.  *)
(* Indices into an array are 0-based sequences, as in numpy.               *)
(***************************************************************************)
EXTENDS Integers, Sequences, FiniteSets, TLC

\* ------------------------------------------------------------------------
\* Rational arithmetic (the float32 scalar operations of numpy)
\* ------------------------------------------------------------------------
Abs(x) == IF x < 0 THEN -x ELSE x

RECURSIVE GCD(_, _)
GCD(m, n) == IF n = 0 THEN m ELSE GCD(n, m % n)

Q(n, d) ==
    LET s == IF d < 0 THEN -1 ELSE 1
        g == GCD(Abs(n), Abs(d))
    IN  <<(s * n) \div g, (s * d) \div g>>

QInt(n) == <<n, 1>>
QAdd(x, y) == Q(x[1] * y[2] + y[1] * x[2], x[2] * y[2])
QSub(x, y) == Q(x[1] * y[2] - y[1] * x[2], x[2] * y[2])
QMul(x, y) == Q(x[1] * y[1], x[2] * y[2])
QDiv(x, y) == Q(x[1] * y[2], x[2] * y[1])
QNeg(x) == <<-x[1], x[2]>>
QZero == QInt(0)
QOne == QInt(1)

\* ------------------------------------------------------------------------
\* numpy arrays
\* ------------------------------------------------------------------------
RECURSIVE Prod(_)
Prod(s) == IF s = <<>> THEN 1 ELSE Head(s) * Prod(Tail(s))

Stride(s, i) == Prod(SubSeq(s, i + 1, Len(s)))

\* the multi-index of flat position k (0-based) in an array of shape s
Unravel(k, s) == [i \in 1..Len(s) |-> (k \div Stride(s, i)) % s[i]]

RECURSIVE RavelFrom(_, _, _)
RavelFrom(idx, s, i) ==
    IF i > Len(s) THEN 0 ELSE idx[i] * Stride(s, i) + RavelFrom(idx, s, i + 1)

Ravel(idx, s) == RavelFrom(idx, s, 1)

At(arr, idx) == arr.flat[Ravel(idx, arr.shape) + 1]

\* the array of the given shape whose entry at idx is f(idx)
FromFn(shape, f(_)) ==
    [shape |-> shape, flat |-> [k \in 1..Prod(shape) |-> f(Unravel(k - 1, shape))]]

\* the value every array expression takes once an exception was raised
ErrArr == [shape |-> <<>>, flat |-> <<>>]
IsErr(arr) == arr.flat = <<>>

Full(shape, v) == FromFn(shape, LAMBDA idx : v)
ZerosLike(arr) == Full(arr.shape, QZero)
IsZero(arr) == \A k \in 1..Len(arr.flat) : arr.flat[k] = QZero

\* numpy's broadcasting rule: shapes are aligned at their last axis; a 0
\* entry marks an axis on which the two shapes cannot be broadcast
PadShape(s, n) == [i \in 1..n |-> IF i <= n - Len(s) THEN 1 ELSE s[i - (n - Len(s))]]

BroadcastShape(s1, s2) ==
    LET n == IF Len(s1) > Len(s2) THEN Len(s1) ELSE Len(s2)
        p1 == PadShape(s1, n)
        p2 == PadShape(s2, n)
    IN  [i \in 1..n |-> IF p1[i] = p2[i] THEN p1[i]
                        ELSE IF p1[i] = 1 THEN p2[i]
                        ELSE IF p2[i] = 1 THEN p1[i]
                        ELSE 0]

Compatible(s1, s2) == \A i \in DOMAIN BroadcastShape(s1, s2) : BroadcastShape(s1, s2)[i] # 0

\* s broadcasts to S (np.broadcast_to(., S) and the in-place operators accept it)
BroadcastsTo(s, S) == Len(s) <= Len(S) /\ BroadcastShape(s, S) = S

\* the index into an array of shape s that position idx of a broadcast shape reads
BIdx(idx, s) ==
    LET off == Len(idx) - Len(s)
    IN  [i \in 1..Len(s) |-> IF s[i] = 1 THEN 0 ELSE idx[i + off]]

broadcast_to(arr, S) == FromFn(S, LAMBDA idx : At(arr, BIdx(idx, arr.shape)))

\* an elementwise binary numpy operator, with broadcasting (the +, -, *, /
\* of src/tensor.py:36, 54, 83, 101 and of the closures); ErrArr when an
\* operand is an error or the shapes do not broadcast (ValueError)
EW(op(_, _), x, y) ==
    IF IsErr(x) \/ IsErr(y) THEN ErrArr
    ELSE IF ~Compatible(x.shape, y.shape) THEN ErrArr
    ELSE FromFn(BroadcastShape(x.shape, y.shape),
                LAMBDA idx : op(At(x, BIdx(idx, x.shape)), At(y, BIdx(idx, y.shape))))

\* an elementwise unary numpy operator (-self.data, grad / n)
Map(op(_), x) == IF IsErr(x) THEN ErrArr ELSE [shape |-> x.shape, flat |-> [k \in DOMAIN x.flat |-> op(x.flat[k])]]

RECURSIVE QSumTo(_, _)
QSumTo(f, n) == IF n = 0 THEN QZero ELSE QAdd(QSumTo(f, n - 1), f[n])

RemoveAt(s, i) == SubSeq(s, 1, i - 1) \o SubSeq(s, i + 1, Len(s))

\* arr.sum(axis=ax, keepdims=keep), ax 0-based
SumAxis(arr, ax, keep) ==
    LET kept == [arr.shape EXCEPT ![ax + 1] = 1]
        red  == FromFn(kept, LAMBDA idx :
                    QSumTo([j \in 1..arr.shape[ax + 1] |->
                               At(arr, [idx EXCEPT ![ax + 1] = j - 1])],
                           arr.shape[ax + 1]))
    IN  IF keep THEN red ELSE [shape |-> RemoveAt(kept, ax + 1), flat |-> red.flat]

\* arr.sum(axis=None, keepdims=keep)
SumAll(arr, keep) ==
    [shape |-> IF keep THEN [i \in 1..Len(arr.shape) |-> 1] ELSE <<>>,
     flat |-> <<QSumTo(arr.flat, Len(arr.flat))>>]

\* np.expand_dims(arr, axis=ax), ax 0-based
ExpandDims(arr, ax) ==
    [shape |-> SubSeq(arr.shape, 1, ax) \o <<1>> \o SubSeq(arr.shape, ax + 1, Len(arr.shape)),
     flat |-> arr.flat]

\* arr.T of a 2-D array
Transpose(arr) ==
    FromFn(<<arr.shape[2], arr.shape[1]>>, LAMBDA idx : At(arr, <<idx[2], idx[1]>>))

\* x @ y of two 2-D arrays; ErrArr when numpy raises (an operand that is an
\* error or 0-d, or mismatched inner dimensions)
MatMul(x, y) ==
    IF IsErr(x) \/ IsErr(y) THEN ErrArr
    ELSE IF Len(x.shape) # 2 \/ Len(y.shape) # 2 THEN ErrArr
    ELSE IF x.shape[2] # y.shape[1] THEN ErrArr
    ELSE FromFn(<<x.shape[1], y.shape[2]>>, LAMBDA idx :
            QSumTo([k \in 1..x.shape[2] |->
                       QMul(At(x, <<idx[1], k - 1>>), At(y, <<k - 1, idx[2]>>))],
                   x.shape[2]))

\* ------------------------------------------------------------------------
\* unbroadcast (src/tensor.py:4-15)
\* ------------------------------------------------------------------------
\* a reducer without the loop "while len(grad.shape) > len(shape)"
KeepLeading(grad, shape) == grad

RECURSIVE DropLeading(_, _)
DropLeading(grad, shape) ==
    IF Len(grad.shape) > Len(shape)
    THEN DropLeading(SumAxis(grad, 0, FALSE), shape)
    ELSE grad

\* the loop "for i, dim in enumerate(shape)"; i is 1-based here.  Reading
\* grad.shape[i] beyond the rank of grad raises IndexError.
RECURSIVE ReduceOnes(_, _, _)
ReduceOnes(grad, shape, i) ==
    IF i > Len(shape) THEN grad
    ELSE IF shape[i] # 1 THEN ReduceOnes(grad, shape, i + 1)
    ELSE IF i > Len(grad.shape) THEN ErrArr
    ELSE IF grad.shape[i] # 1
         THEN ReduceOnes(SumAxis(grad, i - 1, TRUE), shape, i + 1)
         ELSE ReduceOnes(grad, shape, i + 1)

unbroadcast(grad, shape) ==
    IF IsErr(grad) THEN ErrArr
    ELSE ReduceOnes(DropLeading(IF grad.shape = <<>> THEN Full(shape, grad.flat[1]) ELSE grad,
                                shape),
                    shape, 1)

\* ------------------------------------------------------------------------
\* Tensor (src/tensor.py:18-27): the arena of all Tensor objects created so
\* far.  A Tensor is named by its index in nodes (object identity).  a and b
\* are the operands captured by its _backward closure as self and other
\* (0 when absent); axis = -1 stands for axis=None.
\* ------------------------------------------------------------------------
VARIABLES
    nodes,      \* the Tensor objects, in order of construction
    budget,     \* operations the caller's program may still apply
    seed,       \* the Tensor whose grad the caller assigned, 0 when none
    pc,         \* "build" | "run" | "done" | "raised": position of the caller
    root,       \* the Tensor backward() was called on, 0 before the call
    todo,       \* what is left of reversed(graph) in Tensor.backward
    log,        \* the Tensors whose _backward the current backward() invoked
    calls,      \* the number of backward() calls made so far
    red,        \* the arrays of an unbroadcast(broadcast_to(v, S), shape(v)) run
    train       \* the Linear layer and its training loop, see the last section

vars == <<nodes, budget, seed, pc, root, todo, log, calls, red, train>>

Tensor(data, requires_grad, op, a, b, axis, keep) ==
    [data |-> data, grad |-> ZerosLike(data), rg |-> requires_grad,
     op |-> op, a |-> a, b |-> b, axis |-> axis, keep |-> keep]

Leaf(data, requires_grad) == Tensor(data, requires_grad, "leaf", 0, 0, -1, FALSE)

\* Tensor._prev = set(_children)
Prev(ns, n) == {ns[n].a, ns[n].b} \ {0}

\* ------------------------------------------------------------------------
\* The _backward closures.  A closure run is a state [nodes, err]; err is
\* set when a statement raises, which ends the closure (and backward()).
\* ------------------------------------------------------------------------
\* target.grad += val (numpy in-place add: val must broadcast to grad.shape)
IAdd(target, val) ==
    IF IsErr(val) \/ ~BroadcastsTo(val.shape, target.shape) THEN ErrArr
    ELSE EW(QAdd, target, val)

ISub(target, val) ==
    IF IsErr(val) \/ ~BroadcastsTo(val.shape, target.shape) THEN ErrArr
    ELSE EW(QSub, target, val)

StoreGrad(st, t, r) ==
    IF IsErr(r) THEN [st EXCEPT !.err = TRUE] ELSE [st EXCEPT !.nodes[t].grad = r]

\* a closure that assigns its contribution ("=" for "+=")
AccumAssign(st, t, val) ==
    StoreGrad(st, t, IF IsErr(IAdd(st.nodes[t].grad, val)) THEN ErrArr
                     ELSE broadcast_to(val, st.nodes[t].grad.shape))

Accum(st, t, val) == StoreGrad(st, t, IAdd(st.nodes[t].grad, val))
Decum(st, t, val) == StoreGrad(st, t, ISub(st.nodes[t].grad, val))

Start(ns) == [nodes |-> ns, err |-> FALSE]

\* a closure that accumulates whatever the flag says
AlwaysTracked(ns, t) == TRUE

\* "if self.requires_grad:" / "if other.requires_grad:"
Tracked(ns, t) == ns[t].rg

\* the two guarded statements of a binary closure, run in order
\* (src/tensor.py:38-42 and alike)
Binary(ns, o, first(_), second(_)) ==
    LET s0 == Start(ns)
        s1 == IF Tracked(ns, ns[o].a) THEN first(s0) ELSE s0
    IN  IF s1.err THEN s1
        ELSE IF Tracked(ns, ns[o].b) THEN second(s1) ELSE s1

\* the guarded statement of a unary closure (src/tensor.py:73-75 and alike)
Unary(ns, o, only(_)) ==
    IF Tracked(ns, ns[o].a) THEN only(Start(ns)) ELSE Start(ns)

AddBackward(ns, o) ==
    LET self == ns[o].a
        other == ns[o].b
    IN  Binary(ns, o,
           LAMBDA st : Accum(st, self, unbroadcast(st.nodes[o].grad, st.nodes[self].grad.shape)),
           LAMBDA st : Accum(st, other, unbroadcast(st.nodes[o].grad, st.nodes[other].grad.shape)))

SubBackward(ns, o) ==
    LET self == ns[o].a
        other == ns[o].b
    IN  Binary(ns, o,
           LAMBDA st : Accum(st, self, unbroadcast(st.nodes[o].grad, st.nodes[self].grad.shape)),
           LAMBDA st : Decum(st, other, unbroadcast(st.nodes[o].grad, st.nodes[other].grad.shape)))

NegBackward(ns, o) ==
    Unary(ns, o, LAMBDA st : Accum(st, ns[o].a, Map(QNeg, st.nodes[o].grad)))

MulBackward(ns, o) ==
    LET self == ns[o].a
        other == ns[o].b
    IN  Binary(ns, o,
           LAMBDA st : Accum(st, self,
                          EW(QMul, unbroadcast(st.nodes[other].data, st.nodes[self].grad.shape),
                                   unbroadcast(st.nodes[o].grad, st.nodes[self].grad.shape))),
           LAMBDA st : Accum(st, other,
                          EW(QMul, unbroadcast(st.nodes[self].data, st.nodes[other].grad.shape),
                                   unbroadcast(st.nodes[o].grad, st.nodes[other].grad.shape))))

Recip(x) == QDiv(QOne, x)
NegOverSquare(x, y) == QDiv(QNeg(x), QMul(y, y))

TrueDivBackward(ns, o) ==
    LET self == ns[o].a
        other == ns[o].b
    IN  Binary(ns, o,
           LAMBDA st : Accum(st, self,
                          EW(QMul, unbroadcast(Map(Recip, st.nodes[other].data),
                                               st.nodes[self].grad.shape),
                                   unbroadcast(st.nodes[o].grad, st.nodes[self].grad.shape))),
           LAMBDA st : Accum(st, other,
                          EW(QMul, unbroadcast(EW(NegOverSquare, st.nodes[self].data,
                                                  st.nodes[other].data),
                                               st.nodes[other].grad.shape),
                                   unbroadcast(st.nodes[o].grad, st.nodes[other].grad.shape))))

MatMulBackward(ns, o) ==
    LET self == ns[o].a
        other == ns[o].b
    IN  Binary(ns, o,
           LAMBDA st : Accum(st, self, MatMul(st.nodes[o].grad, Transpose(st.nodes[other].data))),
           LAMBDA st : Accum(st, other, MatMul(Transpose(st.nodes[self].data), st.nodes[o].grad)))

SumBackward(ns, o) ==
    LET self == ns[o].a
        g0 == ns[o].grad
        g1 == IF ~ns[o].keep /\ ns[o].axis # -1 THEN ExpandDims(g0, ns[o].axis) ELSE g0
    IN  Unary(ns, o, LAMBDA st :
            Accum(st, self,
                  IF BroadcastsTo(g1.shape, st.nodes[self].data.shape)
                  THEN broadcast_to(g1, st.nodes[self].data.shape)
                  ELSE ErrArr))

\* np.prod(self.data.shape if axis is None else self.data.shape[axis])
ReducedCount(shape, axis) == IF axis = -1 THEN Prod(shape) ELSE shape[axis + 1]

MeanBackward(ns, o) ==
    LET self == ns[o].a
        n == ReducedCount(ns[self].data.shape, ns[o].axis)
        grad == Map(LAMBDA x : QDiv(x, QInt(n)), ns[o].grad)
    IN  Unary(ns, o, LAMBDA st :
            Accum(st, self, unbroadcast(grad, st.nodes[self].data.shape)))

\* tensor._backward(): the closure the operation attached (a leaf keeps the
\* constructor's "lambda: None")
Closure(ns, o) ==
    CASE ns[o].op = "leaf"    -> Start(ns)
      [] ns[o].op = "add"     -> AddBackward(ns, o)
      [] ns[o].op = "sub"     -> SubBackward(ns, o)
      [] ns[o].op = "neg"     -> NegBackward(ns, o)
      [] ns[o].op = "mul"     -> MulBackward(ns, o)
      [] ns[o].op = "truediv" -> TrueDivBackward(ns, o)
      [] ns[o].op = "matmul"  -> MatMulBackward(ns, o)
      [] ns[o].op = "sum"     -> SumBackward(ns, o)
      [] ns[o].op = "mean"    -> MeanBackward(ns, o)

\* ------------------------------------------------------------------------
\* Tensor.backward (src/tensor.py:251-264)
\* ------------------------------------------------------------------------
\* a traversal without the visited guard
NeverVisited(t, st) == FALSE

\* "if tensor not in visited"
Visited(t, st) == t \in st.visited

\* the orders in which "for child in tensor._prev" may iterate the set
Orders(S) == {o \in [1..Cardinality(S) -> S] : \A i, j \in DOMAIN o : o[i] = o[j] => i = j}

\* build_graph(t) run from the traversal state st = [visited, graph]: the set
\* of traversal states it can end in, one per iteration order of the sets
RECURSIVE build_graph(_, _, _)
RECURSIVE VisitChildren(_, _, _)
VisitChildren(ns, order, sts) ==
    IF order = <<>> THEN sts
    ELSE VisitChildren(ns, Tail(order),
                       UNION {build_graph(ns, Head(order), s) : s \in sts})

build_graph(ns, t, st) ==
    IF Visited(t, st) THEN {st}
    ELSE LET st0 == [st EXCEPT !.visited = @ \cup {t}]
             after == UNION {VisitChildren(ns, o, {st0}) : o \in Orders(Prev(ns, t))}
         IN  {[s EXCEPT !.graph = Append(@, t)] : s \in after}

Graphs(ns, r) == {s.graph : s \in build_graph(ns, r, [visited |-> {}, graph |-> <<>>])}

\* a loop over graph instead of reversed(graph)
NotReversed(graph) == graph

\* reversed(graph)
Reversed(graph) == [i \in 1..Len(graph) |-> graph[Len(graph) + 1 - i]]

\* ------------------------------------------------------------------------
\* The operations of the caller's program: each builds one Tensor
\* ------------------------------------------------------------------------
None == "none"

Building == pc = "build" /\ seed = 0 /\ budget > 0

Construct(new) ==
    /\ nodes' = nodes \o new
    /\ budget' = budget - 1
    /\ UNCHANGED <<seed, pc, root, todo, log, calls, red, train>>

Scalar(c) == [shape |-> <<>>, flat |-> <<QInt(c)>>]

HasZero(arr) == \E k \in DOMAIN arr.flat : arr.flat[k] = QZero

\* Tensor.__add__
Add(i, j) ==
    /\ Building
    /\ Compatible(nodes[i].data.shape, nodes[j].data.shape)
    /\ Construct(<<Tensor(EW(QAdd, nodes[i].data, nodes[j].data),
                          nodes[i].rg \/ nodes[j].rg, "add", i, j, -1, FALSE)>>)

\* Tensor.__sub__
Sub(i, j) ==
    /\ Building
    /\ Compatible(nodes[i].data.shape, nodes[j].data.shape)
    /\ Construct(<<Tensor(EW(QSub, nodes[i].data, nodes[j].data),
                          nodes[i].rg \/ nodes[j].rg, "sub", i, j, -1, FALSE)>>)

\* Tensor.__neg__
Neg(i) ==
    /\ Building
    /\ Construct(<<Tensor(Map(QNeg, nodes[i].data), nodes[i].rg, "neg", i, 0, -1, FALSE)>>)

\* Tensor.__mul__
Mul(i, j) ==
    /\ Building
    /\ Compatible(nodes[i].data.shape, nodes[j].data.shape)
    /\ Construct(<<Tensor(EW(QMul, nodes[i].data, nodes[j].data),
                          nodes[i].rg \/ nodes[j].rg, "mul", i, j, -1, FALSE)>>)

\* Tensor.__truediv__ (a divisor without zero entries)
TrueDiv(i, j) ==
    /\ Building
    /\ Compatible(nodes[i].data.shape, nodes[j].data.shape)
    /\ ~HasZero(nodes[j].data)
    /\ Construct(<<Tensor(EW(QDiv, nodes[i].data, nodes[j].data),
                          nodes[i].rg \/ nodes[j].rg, "truediv", i, j, -1, FALSE)>>)

\* Tensor.__matmul__ (2-D operands)
MatMulOp(i, j) ==
    /\ Building
    /\ ~IsErr(MatMul(nodes[i].data, nodes[j].data))
    /\ Construct(<<Tensor(MatMul(nodes[i].data, nodes[j].data),
                          nodes[i].rg \/ nodes[j].rg, "matmul", i, j, -1, FALSE)>>)

Axes(arr) == {-1} \cup (0..(Len(arr.shape) - 1))

SumData(arr, axis, keep) ==
    IF axis = -1 THEN SumAll(arr, keep) ELSE SumAxis(arr, axis, keep)

MeanData(arr, axis, keep) ==
    Map(LAMBDA x : QDiv(x, QInt(ReducedCount(arr.shape, axis))), SumData(arr, axis, keep))

\* Tensor.sum
Sum(i, axis, keep) ==
    /\ Building
    /\ axis \in Axes(nodes[i].data)
    /\ Construct(<<Tensor(SumData(nodes[i].data, axis, keep), nodes[i].rg, "sum", i, 0,
                          axis, keep)>>)

\* Tensor.mean
Mean(i, axis, keep) ==
    /\ Building
    /\ axis \in Axes(nodes[i].data)
    /\ Construct(<<Tensor(MeanData(nodes[i].data, axis, keep), nodes[i].rg, "mean", i, 0,
                          axis, keep)>>)

\* "c - x" with c no Tensor: Python calls x.__rsub__(c), which returns
\* "self - other" with self = x and other = c; __sub__ then coerces c.
\* The result names the Tensor <<self, other>> of that __sub__ call.
RSubOperands(x, c) == <<x, c>>

RSub(c, i) ==
    LET opnd == RSubOperands(i, Len(nodes) + 1)
        self == IF opnd[1] = i THEN nodes[i] ELSE Leaf(Scalar(c), FALSE)
        other == IF opnd[2] = i THEN nodes[i] ELSE Leaf(Scalar(c), FALSE)
    IN  /\ Building
        /\ Construct(<<Leaf(Scalar(c), FALSE),
                       Tensor(EW(QSub, self.data, other.data), self.rg \/ other.rg,
                              "sub", opnd[1], opnd[2], -1, FALSE)>>)

\* "c / x" with c no Tensor: x.__rtruediv__(c) returns "self / other"
RTrueDivOperands(x, c) == <<x, c>>

RTrueDiv(c, i) ==
    LET opnd == RTrueDivOperands(i, Len(nodes) + 1)
        self == IF opnd[1] = i THEN nodes[i] ELSE Leaf(Scalar(c), FALSE)
        other == IF opnd[2] = i THEN nodes[i] ELSE Leaf(Scalar(c), FALSE)
    IN  /\ Building
        /\ ~HasZero(other.data)
        /\ Construct(<<Leaf(Scalar(c), FALSE),
                       Tensor(EW(QDiv, self.data, other.data), self.rg \/ other.rg,
                              "truediv", opnd[1], opnd[2], -1, FALSE)>>)

\* ------------------------------------------------------------------------
\* The caller seeds a Tensor and calls backward() on it
\* ------------------------------------------------------------------------
Ramp(shape, start) == [shape |-> shape, flat |-> [k \in 1..Prod(shape) |-> QInt(start + k - 1)]]

SeedStarts == {1, 2}

\* "t.grad = g" by the caller, g of the shape of t
Seed(r, start) ==
    /\ pc = "build" /\ seed = 0
    /\ nodes' = [nodes EXCEPT ![r].grad = Ramp(nodes[r].data.shape, start)]
    /\ seed' = r
    /\ UNCHANGED <<budget, pc, root, todo, log, calls, red, train>>

\* Tensor.backward up to its loop: build_graph(self)
BackwardBegin(r) ==
    /\ pc = "build" /\ seed \in {0, r}
    /\ \E g \in Graphs(nodes, r) : todo' = Reversed(g)
    /\ root' = r
    /\ log' = <<>>
    /\ calls' = calls + 1
    /\ pc' = "run"
    /\ UNCHANGED <<nodes, budget, seed, red, train>>

\* one iteration of "for tensor in reversed(graph): tensor._backward()"
BackwardStep ==
    /\ pc = "run"
    /\ LET st == Closure(nodes, Head(todo))
       IN  /\ nodes' = st.nodes
           /\ pc' = IF st.err THEN "raised" ELSE IF Len(todo) = 1 THEN "done" ELSE "run"
    /\ todo' = Tail(todo)
    /\ log' = Append(log, Head(todo))
    /\ UNCHANGED <<budget, seed, root, calls, red, train>>

\* ------------------------------------------------------------------------
\* Spec: expressions over two leaves a = [2.0] and b = [3.0], then backward()
\* ------------------------------------------------------------------------
MaxOps == 2

Init ==
    /\ \E ra, rb \in BOOLEAN :
          nodes = <<Leaf(Ramp(<<1>>, 2), ra), Leaf(Ramp(<<1>>, 3), rb)>>
    /\ budget = MaxOps
    /\ seed = 0
    /\ pc = "build"
    /\ root = 0
    /\ todo = <<>>
    /\ log = <<>>
    /\ calls = 0
    /\ red = None
    /\ train = None

Next ==
    \/ \E i, j \in DOMAIN nodes : Add(i, j)
    \/ \E i, j \in DOMAIN nodes : Mul(i, j)
    \/ \E r \in DOMAIN nodes, s \in SeedStarts : Seed(r, s)
    \/ \E r \in DOMAIN nodes : BackwardBegin(r)
    \/ BackwardStep

Spec == Init /\ [][Next]_vars

\* ------------------------------------------------------------------------
\* Properties of Tensor.backward under Spec
\* ------------------------------------------------------------------------
Range(f) == {f[i] : i \in DOMAIN f}
Count(f, x) == Cardinality({i \in DOMAIN f : f[i] = x})

RECURSIVE ReachSet(_, _)
ReachSet(ns, S) ==
    LET T == S \cup UNION {Prev(ns, n) : n \in S}
    IN  IF T = S THEN S ELSE ReachSet(ns, T)

\* the Tensors reachable from r via _prev
Reach(ns, r) == ReachSet(ns, {r})

\* the reachable Tensors that have n in their _prev
Consumers(ns, r, n) == {c \in Reach(ns, r) : n \in Prev(ns, c)}

Reconverges == \E n \in Reach(nodes, root) : Cardinality(Consumers(nodes, root, n)) >= 2

\* C1: whenever backward() invokes the _backward of a Tensor n, the _backward
\* of every reachable Tensor with n in its _prev has been invoked already,
\* and no closure changes the grad of n or of an earlier invoked Tensor any
\* more: n.grad is complete when n propagates it.
C1_ConsumersFirst ==
    [][pc = "run" =>
          LET n == Head(todo)
          IN  /\ Consumers(nodes, root, n) \subseteq Range(log)
              /\ \A m \in Range(log) \cup {n} : nodes'[m].grad = nodes[m].grad]_vars

C1_Witness ==
    /\ pc = "done"
    /\ Reconverges
    /\ \E n \in Reach(nodes, root) : n # root /\ ~IsZero(nodes[n].grad)

\* C2: backward() on a root whose grad is all-zero differentiates as if the
\* grad were all-ones: c = a*b + b, c.backward() leaves a.grad = [3], b.grad = [4].
C2_DefaultSeed ==
    (/\ pc = "done" /\ seed = 0 /\ Len(nodes) = 4 /\ root = 4
     /\ nodes[1].rg /\ nodes[2].rg
     /\ nodes[3].op = "mul" /\ nodes[3].a = 1 /\ nodes[3].b = 2
     /\ nodes[4].op = "add" /\ nodes[4].a = 3 /\ nodes[4].b = 2)
    => /\ nodes[1].grad = Ramp(<<1>>, 3)
       /\ nodes[2].grad = Ramp(<<1>>, 4)

\* the contribution of use "slot" (1: self, 2: other) of consumer c, by the
\* adjoint formula of c's operation, from the final grad of c
UseContribution(ns, c, slot) ==
    IF ns[c].op = "add" THEN ns[c].grad
    ELSE EW(QMul, ns[IF slot = 1 THEN ns[c].b ELSE ns[c].a].data, ns[c].grad)

Uses(ns, r, n) ==
    {<<c, 1>> : c \in {c \in Reach(ns, r) : ns[c].a = n}}
        \cup {<<c, 2>> : c \in {c \in Reach(ns, r) : ns[c].b = n}}

RECURSIVE SumUses(_, _, _)
SumUses(ns, U, acc) ==
    IF U = {} THEN acc
    ELSE LET u == CHOOSE u \in U : TRUE
         IN  SumUses(ns, U \ {u}, EW(QAdd, acc, UseContribution(ns, u[1], u[2])))

\* C3: after backward() on a seeded root, the grad of every other reachable
\* Tensor with requires_grad is the sum of the contributions of all its uses;
\* for y = x + x seeded with s, x.grad = 2 * s.
C3_Additive ==
    pc = "done" =>
       /\ \A n \in Reach(nodes, root) \ {root} :
             nodes[n].rg =>
                nodes[n].grad = SumUses(nodes, Uses(nodes, root, n), ZerosLike(nodes[n].data))
       /\ \A y \in DOMAIN nodes :
             (/\ root = y /\ seed = y /\ nodes[y].op = "add"
              /\ nodes[y].a = nodes[y].b /\ nodes[nodes[y].a].rg
              /\ nodes[nodes[y].a].op = "leaf")
             => nodes[nodes[y].a].grad = EW(QAdd, nodes[y].grad, nodes[y].grad)

C3_Witness ==
    /\ pc = "done" /\ seed = root
    /\ \E y \in DOMAIN nodes :
          /\ root = y /\ nodes[y].op = "add" /\ nodes[y].a = nodes[y].b
          /\ nodes[nodes[y].a].rg /\ nodes[nodes[y].a].op = "leaf"
          /\ nodes[nodes[y].a].grad = Ramp(<<1>>, 4)

\* C4: one backward() call invokes the _backward of every reachable Tensor
\* exactly once and of no other Tensor: while it runs, every reachable Tensor
\* is once in log and todo together, and no unreachable Tensor is in either.
C4_ExactlyOnce ==
    pc \in {"run", "done"} =>
       \A n \in DOMAIN nodes :
          Count(log, n) + Count(todo, n) = IF n \in Reach(nodes, root) THEN 1 ELSE 0

C4_Witness ==
    /\ pc = "done"
    /\ Reconverges
    /\ \E n \in Reach(nodes, root) : nodes[n].op # "leaf" /\ nodes[n].a = nodes[n].b
    /\ \E n \in DOMAIN nodes : n \notin Reach(nodes, root)
    /\ \A n \in Reach(nodes, root) : Count(log, n) = 1

\* ------------------------------------------------------------------------
\* SpecOps: one operation of the library applied to leaves a and b of every
\* shape of rank <= 2 with dimensions up to MaxDim, then backward()
\* ------------------------------------------------------------------------
MaxDim == 2

Shapes ==
    {<<>>} \cup {<<i>> : i \in 1..MaxDim} \cup {<<i, j>> : i, j \in 1..MaxDim}

RawScalars == {5}

InitOps ==
    /\ \E sa, sb \in Shapes, ra, rb \in BOOLEAN :
          nodes = <<Leaf(Ramp(sa, 2), ra), Leaf(Ramp(sb, 3), rb)>>
    /\ budget = 1
    /\ seed = 0
    /\ pc = "build"
    /\ root = 0
    /\ todo = <<>>
    /\ log = <<>>
    /\ calls = 0
    /\ red = None
    /\ train = None

NextOps ==
    \/ \E i, j \in DOMAIN nodes : Add(i, j)
    \/ \E i, j \in DOMAIN nodes : Sub(i, j)
    \/ \E i \in DOMAIN nodes : Neg(i)
    \/ \E i, j \in DOMAIN nodes : Mul(i, j)
    \/ \E i, j \in DOMAIN nodes : TrueDiv(i, j)
    \/ \E i, j \in DOMAIN nodes : MatMulOp(i, j)
    \/ \E i \in DOMAIN nodes, axis \in -1..1, keep \in BOOLEAN : Sum(i, axis, keep)
    \/ \E i \in DOMAIN nodes, axis \in -1..1, keep \in BOOLEAN : Mean(i, axis, keep)
    \/ \E c \in RawScalars, i \in DOMAIN nodes : RSub(c, i)
    \/ \E c \in RawScalars, i \in DOMAIN nodes : RTrueDiv(c, i)
    \/ \E r \in DOMAIN nodes, s \in SeedStarts : Seed(r, s)
    \/ \E r \in DOMAIN nodes : BackwardBegin(r)
    \/ BackwardStep

SpecOps == InitOps /\ [][NextOps]_vars

\* C5: a leaf constructed with requires_grad=False that is not the seeded
\* root has an all-zero grad in every state, so after any backward() call,
\* completed or raised, whatever operation consumes it.
C5_UntrackedLeafZero ==
    \A n \in DOMAIN nodes :
       (nodes[n].op = "leaf" /\ ~nodes[n].rg /\ n # seed) => IsZero(nodes[n].grad)

C5_Witness ==
    /\ pc = "done" /\ seed = root /\ root # 0
    /\ nodes[root].op \in {"add", "mul", "matmul"}
    /\ \E n, m \in Prev(nodes, root) :
          /\ nodes[n].op = "leaf" /\ ~nodes[n].rg /\ IsZero(nodes[n].grad)
          /\ nodes[m].rg /\ ~IsZero(nodes[m].grad)

\* C7: for mul(a, b) with operands of different broadcast-compatible shapes
\* and output gradient g, backward() adds reduce(b_data * g, shape(a)) to
\* a.grad and reduce(a_data * g, shape(b)) to b.grad (stated of the calls
\* that complete).
C7_MulReducesProduct ==
    (/\ pc = "done" /\ root = 3 /\ seed = 3
     /\ nodes[3].op = "mul" /\ nodes[3].a = 1 /\ nodes[3].b = 2
     /\ nodes[1].data.shape # nodes[2].data.shape
     /\ nodes[1].rg /\ nodes[2].rg)
    => /\ nodes[1].grad = unbroadcast(EW(QMul, nodes[2].data, nodes[3].grad),
                                      nodes[1].data.shape)
       /\ nodes[2].grad = unbroadcast(EW(QMul, nodes[1].data, nodes[3].grad),
                                      nodes[2].data.shape)

\* C8: for mean(a, axis, keepdims) backward() completes and adds to a.grad
\* the output gradient g, the collapsed axis re-expanded at its position,
\* broadcast to shape(a) and divided by the number of elements reduced over.
C8_MeanBackward ==
    (/\ pc \in {"done", "raised"} /\ root = 3 /\ seed = 3
     /\ nodes[3].op = "mean" /\ nodes[nodes[3].a].rg)
    => /\ pc = "done"
       /\ LET a == nodes[3].a
              g == IF ~nodes[3].keep /\ nodes[3].axis # -1
                   THEN ExpandDims(nodes[3].grad, nodes[3].axis)
                   ELSE nodes[3].grad
              n == ReducedCount(nodes[a].data.shape, nodes[3].axis)
          IN  nodes[a].grad =
                 Map(LAMBDA x : QDiv(x, QInt(n)), broadcast_to(g, nodes[a].data.shape))

\* C10: for a raw scalar c and a Tensor x, c - x is sub(coerce(c), x) with
\* data c - x and x receiving -g, and c / x has data c / x; c is coerced to
\* a leaf with requires_grad=False.
C10_ReflectedOperandOrder ==
    (Len(nodes) = 4 /\ nodes[3].op = "leaf" /\ nodes[3].data.shape = <<>>
                    /\ 3 \in Prev(nodes, 4))
    => LET x == CHOOSE x \in {nodes[4].a, nodes[4].b} : x # 3
       IN  /\ ~nodes[3].rg
           /\ nodes[4].a = 3 /\ nodes[4].b = x
           /\ nodes[4].op = "sub" => nodes[4].data = EW(QSub, nodes[3].data, nodes[x].data)
           /\ nodes[4].op = "truediv" => nodes[4].data = EW(QDiv, nodes[3].data, nodes[x].data)
           /\ (pc = "done" /\ root = 4 /\ seed = 4 /\ nodes[4].op = "sub" /\ nodes[x].rg)
                 => nodes[x].grad = Map(QNeg, unbroadcast(nodes[4].grad, nodes[x].data.shape))

\* ------------------------------------------------------------------------
\* SpecReduce: unbroadcast applied to broadcast_to(v, S), for every array v
\* of a shape in Shapes and every shape S in Shapes that v broadcasts to
\* ------------------------------------------------------------------------
ValueStarts == {-1, 2}

InitReduce ==
    /\ \E s \in Shapes, S \in Shapes, start \in ValueStarts :
          /\ BroadcastsTo(s, S)
          /\ red = [stage |-> "input", v |-> Ramp(s, start), S |-> S,
                    w |-> ErrArr, r |-> ErrArr]
    /\ nodes = <<>>
    /\ budget = 0
    /\ seed = 0
    /\ pc = "build"
    /\ root = 0
    /\ todo = <<>>
    /\ log = <<>>
    /\ calls = 0
    /\ train = None

\* w = np.broadcast_to(v, S)
Expand ==
    /\ red.stage = "input"
    /\ red' = [red EXCEPT !.stage = "expanded", !.w = broadcast_to(red.v, red.S)]
    /\ UNCHANGED <<nodes, budget, seed, pc, root, todo, log, calls, train>>

\* r = unbroadcast(w, v.shape)
Reduce ==
    /\ red.stage = "expanded"
    /\ red' = [red EXCEPT !.stage = "reduced", !.r = unbroadcast(red.w, red.v.shape)]
    /\ UNCHANGED <<nodes, budget, seed, pc, root, todo, log, calls, train>>

NextReduce == Expand \/ Reduce

SpecReduce == InitReduce /\ [][NextReduce]_vars

\* the number of positions of shape S that each element of an array of
\* shape s is replicated to
Replicas(s, S) == Prod(S) \div Prod(s)

\* C6 as stated: unbroadcast(broadcast_to(v, S), shape(v)) == v
C6_RoundTripIdentity ==
    red.stage = "reduced" => red.r = red.v

\* C6 as amended: unbroadcast(broadcast_to(v, S), shape(v)) has the shape of
\* v and is v multiplied elementwise by the number of replicas size(S)/size(v).
C6_RoundTripScales ==
    red.stage = "reduced" =>
       /\ red.r.shape = red.v.shape
       /\ red.r = Map(LAMBDA x : QMul(QInt(Replicas(red.v.shape, red.S)), x), red.v)

C6_Witness ==
    /\ red.stage = "reduced"
    /\ Len(red.S) > Len(red.v.shape)
    /\ Len(red.v.shape) > 0
    /\ Replicas(red.v.shape, red.S) > 1
    /\ red.r # red.v
    /\ ~IsErr(red.r)

\* ------------------------------------------------------------------------
\* SpecTrain: a Linear(2, 1) layer trained by SGD (src/module.py,
\* src/optimizer.py).  train = [W, b: the parameter Tensors; lr; x, out: the
\* input and output Tensors of the latest forward pass; zeroedAt, steppedAt:
\* the value of calls when zero_grad / step last ran]
\* ------------------------------------------------------------------------
MaxCycles == 2

Params == <<train.W, train.b>>

\* Linear.forward(x) on raw data x: Tensor(x), x @ self.W, . + self.b
LinearForward(ns, W, b, xdata) ==
    LET x == Len(ns) + 1
        xw == MatMul(xdata, ns[W].data)
    IN  ns \o <<Leaf(xdata, FALSE),
                Tensor(xw, ns[W].rg, "matmul", x, W, -1, FALSE),
                Tensor(EW(QAdd, xw, ns[b].data), ns[W].rg \/ ns[b].rg, "add", x + 1, b,
                       -1, FALSE)>>

\* a zero_grad that leaves the buffers as they are
KeepGrad(ns, ps) == ns

\* Module.zero_grad: param.grad = np.zeros_like(param.data)
ModuleZeroGrad(ns, ps) ==
    [n \in DOMAIN ns |->
        IF n \in Range(ps) THEN [ns[n] EXCEPT !.grad = ZerosLike(ns[n].data)] ELSE ns[n]]

\* Optimizer.zero_grad: if param.requires_grad: param.grad = np.zeros_like(param.grad)
OptimizerZeroGrad(ns, ps) ==
    [n \in DOMAIN ns |->
        IF n \in Range(ps) /\ ns[n].rg
        THEN [ns[n] EXCEPT !.grad = ZerosLike(ns[n].grad)] ELSE ns[n]]

\* SGD.step: if param.requires_grad: param.data -= self.lr * param.grad
SGDStep(ns, ps, lr) ==
    [n \in DOMAIN ns |->
        IF n \in Range(ps) /\ ns[n].rg
        THEN [ns[n] EXCEPT !.data = EW(QSub, ns[n].data,
                                       Map(LAMBDA g : QMul(lr, g), ns[n].grad))]
        ELSE ns[n]]

\* the training loop is between a completed backward() and the next forward
AfterBackward == pc = "done"

InitTrain ==
    /\ \E w0 \in ValueStarts :
          nodes = <<Leaf(Ramp(<<2, 1>>, w0), TRUE), Leaf(Full(<<1>>, QZero), TRUE)>>
    /\ \E lr \in {QInt(1), Q(1, 2)} :
          train = [W |-> 1, b |-> 2, lr |-> lr, x |-> 0, out |-> 0,
                   zeroedAt |-> 0, steppedAt |-> 0]
    /\ budget = MaxCycles
    /\ seed = 0
    /\ pc = "build"
    /\ root = 0
    /\ todo = <<>>
    /\ log = <<>>
    /\ calls = 0
    /\ red = None

\* out = model(x)
Forward(batch, start) ==
    /\ pc \in {"build", "done"} /\ budget > 0
    /\ nodes' = LinearForward(nodes, train.W, train.b, Ramp(<<batch, 2>>, start))
    /\ train' = [train EXCEPT !.x = Len(nodes) + 1, !.out = Len(nodes) + 3]
    /\ budget' = budget - 1
    /\ seed' = 0
    /\ pc' = "build"
    /\ UNCHANGED <<root, todo, log, calls, red>>

\* model.zero_grad()
ZeroGradModule ==
    /\ AfterBackward /\ train.zeroedAt < calls
    /\ nodes' = ModuleZeroGrad(nodes, Params)
    /\ train' = [train EXCEPT !.zeroedAt = calls]
    /\ UNCHANGED <<budget, seed, pc, root, todo, log, calls, red>>

\* optimizer.zero_grad()
ZeroGradOptimizer ==
    /\ AfterBackward /\ train.zeroedAt < calls
    /\ nodes' = OptimizerZeroGrad(nodes, Params)
    /\ train' = [train EXCEPT !.zeroedAt = calls]
    /\ UNCHANGED <<budget, seed, pc, root, todo, log, calls, red>>

\* optimizer.step(), at most once per backward() call
Step ==
    /\ AfterBackward /\ train.steppedAt < calls
    /\ nodes' = SGDStep(nodes, Params, train.lr)
    /\ train' = [train EXCEPT !.steppedAt = calls]
    /\ UNCHANGED <<budget, seed, pc, root, todo, log, calls, red>>

NextTrain ==
    \/ \E batch \in 1..2 : Forward(batch, 1)
    \/ ZeroGradModule
    \/ ZeroGradOptimizer
    \/ Step
    \/ \E s \in SeedStarts : train.out # 0 /\ Seed(train.out, s)
    \/ train.out # 0 /\ BackwardBegin(train.out)
    \/ BackwardStep

SpecTrain == InitTrain /\ [][NextTrain]_vars

\* the loop of Tensor.backward run to its end
RECURSIVE BackwardAll(_, _)
BackwardAll(ns, order) ==
    IF order = <<>> THEN ns
    ELSE LET st == Closure(ns, Head(order))
         IN  IF st.err THEN st.nodes ELSE BackwardAll(st.nodes, Tail(order))

\* the same forward and backward on freshly constructed parameters holding
\* the data of the present ones, with the same input and the same seed
FreshRuns ==
    LET ns0 == <<Leaf(nodes[train.W].data, TRUE), Leaf(nodes[train.b].data, TRUE)>>
        ns1 == LinearForward(ns0, 1, 2, nodes[train.x].data)
        ns2 == [ns1 EXCEPT ![Len(ns1)].grad = nodes[train.out].grad]
    IN  {BackwardAll(ns2, Reversed(g)) : g \in Graphs(ns2, Len(ns2))}

\* C9: when zero_grad ran after the previous backward() call, backward() on
\* the seeded output of a fresh forward pass leaves in the parameters the
\* grads that the same forward/backward leaves in fresh parameters with the
\* same data, whatever cycles went before.
C9_NoLeakAcrossCycles ==
    (/\ pc = "done" /\ root = train.out /\ seed = root
     /\ train.zeroedAt = calls - 1)
    => \A f \in FreshRuns :
          /\ nodes[train.W].grad = f[1].grad
          /\ nodes[train.b].grad = f[2].grad

C9_Witness ==
    /\ pc = "done" /\ root = train.out /\ seed = root
    /\ calls = 2 /\ train.zeroedAt = 1 /\ train.steppedAt = 1
    /\ Len(nodes) = 8
    /\ ~IsZero(nodes[train.W].grad)
    /\ ~IsZero(nodes[train.b].grad)

====
